---- MODULE Spec2Model ----
(***************************************************************************)
(* Model of the FileTranscoder of mp3fs (src/src/transcode.c): the output  *)
(* buffer, the constructor's size estimate, FileTranscoder_Read with its   *)
(* id3v1 tail shortcut and forward-fill loop, and FileTranscoder_Finish    *)
(* with its drift correction.                                              *)
(*                                                                         *)
(* FLAC, LAME and libid3tag are external: a source file is described by    *)
(* what they hand to this code (stream info, the size of the rendered      *)
(* id3v2 tag, the return value of lame_encode_buffer for every decoded     *)
(* frame, the return value of lame_encode_flush).                          *)
(*                                                                         *)
(* Bytes are symbolic pairs <<kind, index>>, so that the origin of every   *)
(* byte a Read returns is visible.                                         *)
(***************************************************************************)
EXTENDS Integers, Sequences, FiniteSets, TLC

\* ---------------------------------------------------------------- bounds
\* Length of the id3v1 tag (128 in the source, scaled down).
ID3V1_SIZE == 3
\* BUFSIZE of transcode.h: room asked for before every encoder call (scaled).
BUFSIZE == 3
\* Largest number of audio frames in a source file.
MaxFrames == 2
\* realloc calls one operation can make: one per frame, the flush, the tag.
MaxAllocs == MaxFrames + 2

\* ------------------------------------------------- inputs of the program
\* params.bitrate (kbit/s) and the STREAMINFO values, chosen so that one
\* mp3 frame is estimated at one byte. total_samples = 0: a stream of
\* unknown length, estimated at the two extra frames alone.
Bitrates == {1}
SampleRates == {144000}
TotalSamples == {0}
\* sizes of the rendered id3v2 tag
Id3v2Sizes == {1}
\* return values of lame_encode_buffer (negative: error) and lame_encode_flush
EncodeLens == {-1, 0, 1, BUFSIZE}
FlushLens == {0, 1}

\* FLAC__StreamDecoderState, in the order of the enum.
SEARCH_FOR_FRAME_SYNC == "SEARCH_FOR_FRAME_SYNC"
END_OF_STREAM == "END_OF_STREAM"
ABORTED == "ABORTED"

\* the test on the decoder state, had it been <= END_OF_STREAM
BeforeEndOfStream_Inclusive(state) ==
    state = "SEARCH_FOR_FRAME_SYNC" \/ state = "END_OF_STREAM"

\* FLAC__stream_decoder_get_state(d) < FLAC__STREAM_DECODER_END_OF_STREAM
BeforeEndOfStream(state) == state = SEARCH_FOR_FRAME_SYNC

\* ------------------------------------------------------------ byte values
Id3v2Byte(i) == <<"id3v2", i>>
Mp3Byte(i) == <<"mp3", i>>
Id3v1Byte(i) == <<"id3v1", i>>
ZeroByte == <<"zero", 0>>
\* content of memory realloc returned and nobody wrote
UninitByte(i) == <<"uninit", i>>
\* memory past the end of the allocation
OutOfBoundsByte(i) == <<"oob", i>>

\* the bytes id3_tag_render produces
Id3v2Tag(n) == [i \in 1..n |-> Id3v2Byte(i - 1)]
Id3v1Tag == [i \in 1..ID3V1_SIZE |-> Id3v1Byte(i - 1)]

VARIABLES
    src,     \* the source file and the configuration (never changes)
    self,    \* the FileTranscoder object
    last,    \* the last call on the object: arguments, result, what it did
    division,      \* a call of divideround: arguments and result
    construction,  \* a call of FileTranscoder_Con: the handles and the result
    reads,         \* the Read calls in progress, one per filesystem thread
    mutex          \* the thread that holds the lock of the session, or 0

vars == <<src, self, last, division, construction, reads, mutex>>

\* --------------------------------------------------------------- helpers
\* divide one integer by another and round off the result
divideround(one, another) ==
    LET result == one \div another
    IN  IF one % another >= another \div 2 THEN result + 1 ELSE result

\* realloc(buffer->data, newsize): old bytes kept, new ones undefined
Realloc(data, newsize) ==
    [i \in 1..newsize |-> IF i <= Len(data) THEN data[i] ELSE UninitByte(i - 1)]

\* memcpy(data + at, bytes, Len(bytes)) inside the allocation
WriteAt(data, at, bytes) ==
    [i \in 1..Len(data) |->
        IF i > at /\ i <= at + Len(bytes) THEN bytes[i - at] ELSE data[i]]

\* buffer_write_prepare: ok says whether realloc succeeds when it is called.
\* Returns the buffer and whether the pointer is non-NULL.
buffer_write_prepare(buffer, len, ok) ==
    IF buffer.size < buffer.pos + len
    THEN IF ~ok
         THEN [buffer |-> buffer, ptr |-> FALSE, alloc |-> 1]
         ELSE [buffer |-> [buffer EXCEPT !.data = Realloc(@, buffer.pos + len),
                                         !.size = buffer.pos + len],
               ptr |-> TRUE, alloc |-> 1]
    ELSE [buffer |-> buffer, ptr |-> buffer.size > 0, alloc |-> 0]

\* buffer_write
buffer_write(buffer, bytes, ok) ==
    LET p == buffer_write_prepare(buffer, Len(bytes), ok)
    IN  IF ~p.ptr
        THEN [buffer |-> p.buffer, written |-> 0, alloc |-> p.alloc]
        ELSE [buffer |-> [p.buffer EXCEPT
                            !.data = WriteAt(@, p.buffer.pos, bytes),
                            !.pos = @ + Len(bytes)],
              written |-> Len(bytes), alloc |-> p.alloc]

\* ------------------------------------------------------------ constructor
\* The source files of the model: stream info, size of the id3v2 tag, what
\* lame_encode_buffer returns for each frame (-1: error, which ends the
\* decoding, so that no frame follows it), what lame_encode_flush returns.
Sources ==
    [bitrate : Bitrates, sample_rate : SampleRates,
     total_samples : TotalSamples, id3v2 : Id3v2Sizes,
     frames : {f \in UNION {[1..n -> EncodeLens] : n \in 0..MaxFrames} :
                  \A i \in 1..(Len(f) - 1) : f[i] >= 0},
     flush : FlushLens]

\* FileTranscoder_Con when every step succeeds
FileTranscoder_Con(s) ==
    LET numframes == divideround(s.total_samples, 1152) + 2
        tag == buffer_write_prepare([data |-> <<>>, pos |-> 0, size |-> 0],
                                    s.id3v2, TRUE).buffer
        buffer == [tag EXCEPT !.data = WriteAt(@, 0, Id3v2Tag(s.id3v2)),
                              !.pos = @ + s.id3v2]
    IN  [buffer |-> buffer,
         decoder |-> TRUE,
         decoder_state |-> SEARCH_FOR_FRAME_SYNC,
         frames_decoded |-> 0,
         encoder |-> TRUE,
         encoded |-> 0,
         id3v1tag |-> Id3v1Tag,
         totalsize |-> buffer.pos
             + divideround(numframes * 144 * s.bitrate * 10,
                           s.sample_rate \div 100)
             + ID3V1_SIZE]

\* --------------------------------------- the constructor's failure paths
\* the library call of the constructor that fails first ("none": no call)
Failures ==
    {"none", "id3_tag_new", "FLAC__stream_decoder_new",
     "FLAC__stream_decoder_init_file", "lame_init", "lame_init_params",
     "realloc"}

\* get_tag returns NULL: the file has no such comment
Absent == "absent"
\* values of the REPLAYGAIN_ALBUM_GAIN and REPLAYGAIN_TRACK_GAIN comments
AlbumGains == {Absent, "album", "0.00 dB", "-6.00 dB"}
TrackGains == {Absent, "track", "0.00 dB", "+3.00 dB"}

\* atof: the number a string starts with, 0.0 when it starts with none
atof(str) ==
    CASE str = "-6.00 dB" -> -6
      [] str = "+3.00 dB" -> 3
      [] OTHER -> 0

\* the scale of the encoder: lame's default, or powf(10, dbgain/20)
NoScale == [set |-> FALSE, dbgain |-> 0]
lame_set_scale(dbgain) == [set |-> TRUE, dbgain |-> dbgain]

\* the replay gain part of meta_cb, had it looked at the track gain first
meta_cb_TrackFirst(comments, scale) ==
    IF comments.track # Absent
    THEN IF atof(comments.track) # 0
         THEN lame_set_scale(atof(comments.track))
         ELSE scale
    ELSE IF comments.album # Absent
    THEN IF atof(comments.album) # 0
         THEN lame_set_scale(atof(comments.album))
         ELSE scale
    ELSE scale

\* meta_cb, VORBIS_COMMENT, lines 298-310: the replay gain sets the scale
meta_cb(comments, scale) ==
    IF comments.album # Absent
    THEN IF atof(comments.album) # 0
         THEN lame_set_scale(atof(comments.album))
         ELSE scale
    ELSE IF comments.track # Absent
    THEN IF atof(comments.track) # 0
         THEN lame_set_scale(atof(comments.track))
         ELSE scale
    ELSE scale

\* what the constructor acquires: the object itself (allocated by the
\* caller), the id3 tag, the FLAC decoder, the LAME encoder
Handles == {"self", "id3tag", "decoder", "encoder"}
NoHandles ==
    [h \in Handles |-> [acquired |-> IF h = "self" THEN 1 ELSE 0,
                        released |-> 0]]
Acquire(r, h) == [r EXCEPT ![h].acquired = @ + 1]
Release(r, h) == [r EXCEPT ![h].released = @ + 1]

\* the labels at the end of FileTranscoder_Con, each falling into the next
id3_fail(r) == Release(r, "self")
flac_fail(r) == id3_fail(Release(r, "id3tag"))
init_flac_fail(r) == flac_fail(Release(r, "decoder"))
encoder_fail(r) == init_flac_fail(r)
init_encoder_fail(r) == encoder_fail(Release(r, "encoder"))
write_tag_fail(r) == init_encoder_fail(r)

\* FileTranscoder_Con with its failures: whether it returns the object, the
\* handles acquired and released, whether the comments were processed and
\* the scale the encoder was given. s.sample_rate = 0: the first metadata
\* block left no sample rate (the file is not FLAC).
FileTranscoder_Con_Handles(s) ==
    LET Fail(r, metadata, scale) ==
            [done |-> TRUE, ok |-> FALSE, handles |-> r,
             metadata |-> metadata, scale |-> scale]
        tagged == Acquire(NoHandles, "id3tag")
        decoding == Acquire(tagged, "decoder")
        encoding == Acquire(decoding, "encoder")
        scale == meta_cb(s.comments, NoScale)
    IN  IF s.fails = "id3_tag_new"
        THEN Fail(id3_fail(NoHandles), FALSE, NoScale)
        ELSE IF s.fails = "FLAC__stream_decoder_new"
        THEN Fail(flac_fail(tagged), FALSE, NoScale)
        ELSE IF s.fails = "FLAC__stream_decoder_init_file"
        THEN Fail(init_flac_fail(decoding), FALSE, NoScale)
        ELSE IF s.fails = "lame_init"
        THEN Fail(encoder_fail(decoding), FALSE, NoScale)
        ELSE IF s.sample_rate = 0
        THEN Fail(encoder_fail(encoding), FALSE, NoScale)
        ELSE IF s.fails = "lame_init_params"
        THEN Fail(init_encoder_fail(encoding), TRUE, scale)
        ELSE IF s.fails = "realloc"
        THEN Fail(write_tag_fail(encoding), TRUE, scale)
        ELSE [done |-> TRUE, ok |-> TRUE,
              handles |-> Release(encoding, "id3tag"),
              metadata |-> TRUE, scale |-> scale]

\* ------------------------------------------------- one call on the object
\* What a call has done so far: the object, the realloc calls made (oracle
\* says which of them succeed), the adapter calls made.
Call(s) ==
    [self |-> s, allocs |-> 0, decode_calls |-> 0, encode_calls |-> 0,
     flush_calls |-> 0, finish_calls |-> 0, tag_writes |-> 0,
     write_cb_nomem |-> FALSE]

\* Which realloc calls of one call succeed: the first k do; once memory has
\* run out it stays so until the call returns.
FirstSucceed(k) == [i \in 1..MaxAllocs |-> i <= k]
AllSucceed == FirstSucceed(MaxAllocs)

\* the bytes the encoder emits next
Mp3Bytes(from, n) == [i \in 1..n |-> Mp3Byte(from + i - 1)]

\* write_cb: the decoder hands one frame over; it is encoded at the write
\* position. TRUE in abort: FLAC__STREAM_DECODER_WRITE_STATUS_ABORT.
write_cb(c, oracle) ==
    LET s == c.self
        p == buffer_write_prepare(s.buffer, BUFSIZE, oracle[c.allocs + 1])
        len == src.frames[s.frames_decoded + 1]
    IN  IF ~p.ptr
        THEN [call |-> [c EXCEPT !.allocs = @ + p.alloc,
                                 !.write_cb_nomem = TRUE],
              abort |-> TRUE]
        ELSE IF len < 0
        THEN [call |-> [c EXCEPT !.allocs = @ + p.alloc,
                                 !.encode_calls = @ + 1,
                                 !.self.buffer = p.buffer],
              abort |-> TRUE]
        ELSE [call |-> [c EXCEPT
                  !.allocs = @ + p.alloc,
                  !.encode_calls = @ + 1,
                  !.self.buffer =
                      [p.buffer EXCEPT
                          !.data = WriteAt(@, p.buffer.pos,
                                           Mp3Bytes(s.encoded, len)),
                          !.pos = @ + len],
                  !.self.encoded = @ + len],
              abort |-> FALSE]

\* FLAC__stream_decoder_process_single on the audio part of the file: the
\* next frame goes to write_cb; after the last frame the decoder finds the
\* end of the stream.
process_single(c, oracle) ==
    LET s == c.self
        d == [c EXCEPT !.decode_calls = @ + 1]
    IN  IF s.frames_decoded < Len(src.frames)
        THEN LET w == write_cb(d, oracle)
             IN  IF w.abort
                 THEN [w.call EXCEPT !.self.decoder_state = ABORTED]
                 ELSE [w.call EXCEPT !.self.frames_decoded = @ + 1]
        ELSE [d EXCEPT !.self.decoder_state = END_OF_STREAM]

\* the drift correction, had it moved the size to the data instead
DriftCorrect_MovesTotalSize(s) ==
    IF s.buffer.pos + ID3V1_SIZE /= s.totalsize
    THEN [s EXCEPT !.totalsize = s.buffer.pos + ID3V1_SIZE]
    ELSE s

\* FileTranscoder_Finish, lines 482-487: the drift correction
DriftCorrect(s) ==
    IF s.buffer.pos + ID3V1_SIZE /= s.totalsize
    THEN [s EXCEPT !.buffer.pos = s.totalsize - ID3V1_SIZE]
    ELSE s

\* FileTranscoder_Finish, had it left out self->encoder = NULL (line 480)
FileTranscoder_Finish_KeepsEncoder(c0, oracle) ==
    LET c == [c0 EXCEPT !.finish_calls = @ + 1,
                        !.self.decoder = FALSE]
        s == c.self
    IN  IF ~s.encoder
        THEN c
        ELSE
        LET p == buffer_write_prepare(s.buffer, BUFSIZE, oracle[c.allocs + 1])
            len == IF p.ptr THEN src.flush ELSE 0
            flushed ==
                IF p.ptr /\ len >= 0
                THEN [p.buffer EXCEPT
                         !.data = WriteAt(@, p.buffer.pos,
                                          Mp3Bytes(s.encoded, len)),
                         !.pos = @ + len]
                ELSE p.buffer
            closed == [s EXCEPT !.buffer = flushed,
                                !.encoded = IF len >= 0 THEN @ + len ELSE @]
            moved == DriftCorrect(closed)
            w == buffer_write(moved.buffer, moved.id3v1tag,
                              oracle[c.allocs + p.alloc + 1])
        IN  [c EXCEPT !.self = [moved EXCEPT !.buffer = w.buffer],
                      !.allocs = @ + p.alloc + w.alloc,
                      !.flush_calls = IF p.ptr THEN @ + 1 ELSE @,
                      !.tag_writes = IF w.written > 0 THEN @ + 1 ELSE @]

\* FileTranscoder_Finish
FileTranscoder_Finish(c0, oracle) ==
    LET c == [c0 EXCEPT !.finish_calls = @ + 1,
                        !.self.decoder = FALSE]
        s == c.self
    IN  IF ~s.encoder
        THEN c
        ELSE
        LET p == buffer_write_prepare(s.buffer, BUFSIZE, oracle[c.allocs + 1])
            len == IF p.ptr THEN src.flush ELSE 0
            flushed ==
                IF p.ptr /\ len >= 0
                THEN [p.buffer EXCEPT
                         !.data = WriteAt(@, p.buffer.pos,
                                          Mp3Bytes(s.encoded, len)),
                         !.pos = @ + len]
                ELSE p.buffer
            closed == [s EXCEPT !.buffer = flushed,
                                !.encoded = IF len >= 0 THEN @ + len ELSE @,
                                !.encoder = FALSE]
            moved == DriftCorrect(closed)
            w == buffer_write(moved.buffer, moved.id3v1tag,
                              oracle[c.allocs + p.alloc + 1])
        IN  [c EXCEPT !.self = [moved EXCEPT !.buffer = w.buffer],
                      !.allocs = @ + p.alloc + w.alloc,
                      !.flush_calls = IF p.ptr THEN @ + 1 ELSE @,
                      !.tag_writes = IF w.written > 0 THEN @ + 1 ELSE @]

\* the clamp, had it kept one byte too many
Clamp_OffByOne(s, offset, len) ==
    IF offset + len > s.totalsize THEN s.totalsize - offset + 1 ELSE len

\* FileTranscoder_Read, lines 496-498: the clamp to the end of the file
Clamp(s, offset, len) ==
    IF offset + len > s.totalsize THEN s.totalsize - offset ELSE len

\* the shortcut test, had it asked for a range that reaches the end of file
TailShortcut_ToTheEnd(s, offset, len) ==
    /\ offset > s.buffer.pos
    /\ offset + len >= s.totalsize

\* FileTranscoder_Read, lines 506-507: the test for the id3v1 shortcut
TailShortcut(s, offset, len) ==
    /\ offset > s.buffer.pos
    /\ offset + len > s.totalsize - ID3V1_SIZE

\* self->id3v1tag[i - 1]; the array has ID3V1_SIZE bytes
TagAt(tag, i) == IF i \in 1..Len(tag) THEN tag[i] ELSE OutOfBoundsByte(i - 1)

\* FileTranscoder_Read, lines 508-518: the block the shortcut hands back
\* (len >= 0): zeros, then the tag
TailBlock(s, offset, len) ==
    LET id3start == s.totalsize - ID3V1_SIZE
    IN  IF id3start >= offset
        THEN [i \in 1..len |->
                 IF i > id3start - offset
                 THEN TagAt(s.id3v1tag, i - (id3start - offset))
                 ELSE ZeroByte]
        ELSE [i \in 1..len |-> TagAt(s.id3v1tag, (ID3V1_SIZE - len) + i)]

\* the loop condition, had it compared with <=
NeedMore_Inclusive(s, offset, len) == s.buffer.pos <= offset + len

\* FileTranscoder_Read, line 525: the condition of the transcode loop
NeedMore(s, offset, len) == s.buffer.pos < offset + len

\* FileTranscoder_Read, lines 525-533: transcode up to what is needed
RECURSIVE Fill(_, _, _, _)
Fill(c, offset, len, oracle) ==
    IF NeedMore(c.self, offset, len)
    THEN IF BeforeEndOfStream(c.self.decoder_state)
         THEN Fill(process_single(c, oracle), offset, len, oracle)
         ELSE FileTranscoder_Finish(c, oracle)
    ELSE c

\* FileTranscoder_Read, lines 537-540: truncate to what was produced
Truncate(s, offset, len) ==
    IF s.buffer.pos < offset + len
    THEN IF s.buffer.pos - offset < 0 THEN 0 ELSE s.buffer.pos - offset
    ELSE len

\* memcpy(buff, self->buffer.data + offset, len), len >= 0
CopyOut(buffer, offset, len) ==
    [i \in 1..len |->
        IF offset + i <= buffer.size
        THEN buffer.data[offset + i]
        ELSE OutOfBoundsByte(offset + i - 1)]

\* FileTranscoder_Read. ub: memset or memcpy was called with a negative
\* length (a huge size_t) or memcpy read past the allocation.
FileTranscoder_Read(s, offset, length, oracle) ==
    LET len == Clamp(s, offset, length)
    IN  IF TailShortcut(s, offset, len)
        THEN [call |-> Call(s), ret |-> len, shortcut |-> TRUE,
              buff |-> IF len >= 0 THEN TailBlock(s, offset, len) ELSE <<>>,
              ub |-> len < 0]
        ELSE
        LET c == IF s.decoder /\ s.encoder
                 THEN Fill(Call(s), offset, len, oracle)
                 ELSE Call(s)
            n == Truncate(c.self, offset, len)
        IN  [call |-> c, ret |-> n, shortcut |-> FALSE,
             buff |-> IF n >= 0 THEN CopyOut(c.self.buffer, offset, n)
                      ELSE <<>>,
             ub |-> n < 0 \/ (n > 0 /\ offset + n > c.self.buffer.size)]

\* ------------------------------------------------------------ the system
\* what the last call did, as its caller and the adapters saw it
Record(op, offset, length, pos0, r, outcome) ==
    [op |-> op, offset |-> offset, len |-> length, pos0 |-> pos0,
     ret |-> r.ret, buff |-> r.buff, shortcut |-> r.shortcut, ub |-> r.ub,
     outcome |-> outcome,
     decode_calls |-> r.call.decode_calls,
     encode_calls |-> r.call.encode_calls,
     flush_calls |-> r.call.flush_calls,
     finish_calls |-> r.call.finish_calls,
     tag_writes |-> r.call.tag_writes,
     write_cb_nomem |-> r.call.write_cb_nomem]

NoResult(s) ==
    [call |-> Call(s), ret |-> 0, buff |-> <<>>, shortcut |-> FALSE,
     ub |-> FALSE]

\* no call of divideround, no constructor and no thread at work
NoDivision == [one |-> 0, another |-> 1, result |-> 0, done |-> FALSE]
NoConstruction ==
    [done |-> FALSE, ok |-> FALSE, handles |-> NoHandles,
     metadata |-> FALSE, scale |-> NoScale]
\* the threads of the filesystem that call into one session
NumThreads == 2
Threads == 1..NumThreads
IdleRead == [pc |-> "idle", offset |-> 0, len |-> 0, iterations |-> 0]
NoReads == [t \in Threads |-> IdleRead]
Unlocked == 0

Init ==
    /\ src \in Sources
    /\ self = FileTranscoder_Con(src)
    /\ last = Record("Con", 0, 0, 0, NoResult(self), "returned")
    /\ division = NoDivision
    /\ construction = NoConstruction
    /\ reads = NoReads
    /\ mutex = Unlocked

Running == last.outcome = "returned"

\* the requests: every range of the file, those that reach one byte past
\* its end, and those that start past its end
Requests ==
    {r \in (0..(self.totalsize + 1)) \X (0..(self.totalsize + 1)) :
        \/ r[1] + r[2] <= self.totalsize + 1
        \/ (r[1] > self.totalsize /\ r[2] <= 1)}

\* which realloc calls succeed matters only while there is something to
\* transcode or to finish
OraclesOf(s) ==
    IF s.encoder
    THEN {FirstSucceed(k) :
             k \in 0..(Len(src.frames) - s.frames_decoded + 1)} \cup {AllSucceed}
    ELSE {AllSucceed}

\* a Read calls realloc only when it transcodes
OraclesOfRead(s, offset, length) ==
    LET len == Clamp(s, offset, length)
    IN  IF ~TailShortcut(s, offset, len) /\ s.decoder /\ s.encoder
           /\ NeedMore(s, offset, len)
        THEN OraclesOf(s)
        ELSE {AllSucceed}

\* the filesystem reads length bytes at offset
Read ==
    /\ Running
    /\ \E req \in Requests :
       \E oracle \in OraclesOfRead(self, req[1], req[2]) :
          LET offset == req[1]
              length == req[2]
              r == FileTranscoder_Read(self, offset, length, oracle)
          IN  /\ self' = r.call.self
              /\ \E outcome \in IF r.ub THEN {"returned", "crashed"}
                                        ELSE {"returned"} :
                    last' = Record("Read", offset, length, self.buffer.pos,
                                   r, outcome)
    /\ UNCHANGED <<src, division, construction, reads, mutex>>

\* the filesystem releases the file: Finish is called from outside
Finish ==
    /\ Running
    /\ \E oracle \in OraclesOf(self) :
          LET c == FileTranscoder_Finish(Call(self), oracle)
          IN  /\ self' = c.self
              /\ last' = Record("Finish", 0, 0, self.buffer.pos,
                                [NoResult(self) EXCEPT !.call = c],
                                "returned")
    /\ UNCHANGED <<src, division, construction, reads, mutex>>

Next == Read \/ Finish

Spec == Init /\ [][Next]_vars

\* ------------------------------------------------------------ divideround
\* the arguments divideround is applied to
MaxOne == 11
MaxAnother == 7

\* a file that holds no audio, for the specifications that open no session
NoFile == CHOOSE s \in Sources : s.frames = << >> /\ s.flush = 0

DivideInit ==
    /\ src = NoFile
    /\ self = FileTranscoder_Con(src)
    /\ last = Record("Con", 0, 0, 0, NoResult(self), "returned")
    /\ division \in {[NoDivision EXCEPT !.one = a, !.another = b] :
                        a \in 0..MaxOne, b \in 1..MaxAnother}
    /\ construction = NoConstruction
    /\ reads = NoReads
    /\ mutex = Unlocked

\* the constructor calls divideround(one, another)
Divide ==
    /\ ~division.done
    /\ division' = [division EXCEPT
                        !.result = divideround(division.one, division.another),
                        !.done = TRUE]
    /\ UNCHANGED <<src, self, last, construction, reads, mutex>>

SpecDivide == DivideInit /\ [][Divide]_vars

\* ------------------------------------------------------- the constructor
\* the files the constructor is given, with the library call that fails
ConSources ==
    [bitrate : Bitrates, sample_rate : SampleRates \cup {0},
     total_samples : TotalSamples, id3v2 : Id3v2Sizes,
     frames : {<< >>}, flush : {0},
     fails : Failures,
     comments : [album : AlbumGains, track : TrackGains]]

\* the object CONSTRUCT hands to FileTranscoder_Con
NewObject ==
    [buffer |-> [data |-> << >>, pos |-> 0, size |-> 0],
     decoder |-> FALSE,
     decoder_state |-> SEARCH_FOR_FRAME_SYNC,
     frames_decoded |-> 0,
     encoder |-> FALSE,
     encoded |-> 0,
     id3v1tag |-> << >>,
     totalsize |-> 0]

ConInit ==
    /\ src \in ConSources
    /\ self = NewObject
    /\ last = Record("Con", 0, 0, 0, NoResult(self), "returned")
    /\ division = NoDivision
    /\ construction = NoConstruction
    /\ reads = NoReads
    /\ mutex = Unlocked

\* the filesystem opens a file: FileTranscoder_Con runs
Con ==
    /\ ~construction.done
    /\ construction' = FileTranscoder_Con_Handles(src)
    /\ self' = IF construction'.ok THEN FileTranscoder_Con(src) ELSE self
    /\ UNCHANGED <<src, last, division, reads, mutex>>

SpecCon == ConInit /\ [][Con]_vars

\* ------------------------------------------------- the filesystem threads
\* Read step by step, called by several threads on one session. The caller
\* serializes the calls with a lock on the session, held from before
\* FileTranscoder_Read (or Finish) until it returns. What a Read returns
\* is left to Spec; a step here is one pass of the loop of lines 523-534.

\* a caller that takes no heed of the lock
Lock_NoWait(t) == mutex' = t
\* the caller takes the lock of the session, waiting until it is free
Lock(t) == mutex = Unlocked /\ mutex' = t
Unlock(t) == mutex = t /\ mutex' = Unlocked

\* the requests of the threads: those that start inside the file
ThreadRequests == {r \in Requests : r[1] <= self.totalsize}

ThreadsInit ==
    /\ src \in Sources
    /\ self = FileTranscoder_Con(src)
    /\ last = Record("Con", 0, 0, 0, NoResult(self), "returned")
    /\ division = NoDivision
    /\ construction = NoConstruction
    /\ reads = NoReads
    /\ mutex = Unlocked

\* thread t is asked to read and goes for the lock
ReadCall(t) ==
    /\ reads[t].pc = "idle"
    /\ reads' = [reads EXCEPT ![t].pc = "lock"]
    /\ UNCHANGED <<src, self, last, division, construction, mutex>>

\* t has the lock and enters FileTranscoder_Read: lines 496-507
ReadEnter(t) ==
    /\ reads[t].pc = "lock"
    /\ Lock(t)
    /\ \E req \in ThreadRequests :
          LET len == Clamp(self, req[1], req[2])
          IN  reads' = [reads EXCEPT ![t] =
                  [pc |-> IF TailShortcut(self, req[1], len)
                          THEN "tail" ELSE "loop",
                   offset |-> req[1], len |-> len, iterations |-> 0]]
    /\ UNCHANGED <<src, self, last, division, construction>>

\* lines 508-520: the id3v1 shortcut answers and returns
ReadTail(t) ==
    /\ reads[t].pc = "tail"
    /\ Unlock(t)
    /\ reads' = [reads EXCEPT ![t] = IdleRead]
    /\ UNCHANGED <<src, self, last, division, construction>>

\* lines 523-534: one pass of the loop
FillStep(t) ==
    /\ reads[t].pc = "loop"
    /\ self.decoder /\ self.encoder
    /\ NeedMore(self, reads[t].offset, reads[t].len)
    /\ \E oracle \in OraclesOf(self) :
          self' = IF BeforeEndOfStream(self.decoder_state)
                  THEN process_single(Call(self), oracle).self
                  ELSE FileTranscoder_Finish(Call(self), oracle).self
    /\ reads' = [reads EXCEPT ![t].iterations = @ + 1]
    /\ UNCHANGED <<src, last, division, construction, mutex>>

\* lines 536-543: the loop is left, the bytes are copied, Read returns
ReadReturn(t) ==
    /\ reads[t].pc = "loop"
    /\ ~(/\ self.decoder /\ self.encoder
          /\ NeedMore(self, reads[t].offset, reads[t].len))
    /\ Unlock(t)
    /\ reads' = [reads EXCEPT ![t] = IdleRead]
    /\ UNCHANGED <<src, self, last, division, construction>>

\* the file is released: t takes the lock to call Finish
FinishEnter(t) ==
    /\ reads[t].pc = "idle"
    /\ Lock(t)
    /\ reads' = [reads EXCEPT ![t].pc = "finish"]
    /\ UNCHANGED <<src, self, last, division, construction>>

FinishReturn(t) ==
    /\ reads[t].pc = "finish"
    /\ \E oracle \in OraclesOf(self) :
          self' = FileTranscoder_Finish(Call(self), oracle).self
    /\ Unlock(t)
    /\ reads' = [reads EXCEPT ![t] = IdleRead]
    /\ UNCHANGED <<src, last, division, construction>>

ThreadsNext ==
    \E t \in Threads :
        \/ ReadCall(t)
        \/ ReadEnter(t)
        \/ ReadTail(t)
        \/ FillStep(t)
        \/ ReadReturn(t)
        \/ FinishEnter(t)
        \/ FinishReturn(t)

SpecThreads == ThreadsInit /\ [][ThreadsNext]_vars

\* ------------------------------------------------------------- the claims
Finished == ~self.decoder /\ ~self.encoder
IsRead == last.op = "Read" /\ last.outcome = "returned"
TailStart == self.totalsize - ID3V1_SIZE

\* C1: Read(totalsize - ID3V1_SIZE, ID3V1_SIZE) returns exactly the cached
\* id3v1 tag, in every state of the session.
C1_TailReadReturnsTag ==
    (IsRead /\ last.offset = TailStart /\ last.len = ID3V1_SIZE)
        => (last.ret = ID3V1_SIZE /\ last.buff = self.id3v1tag)

\* C2: a Read at offset >= totalsize returns 0 and copies no bytes.
C2_ReadPastEndReturnsZero ==
    (last.op = "Read" /\ last.offset >= self.totalsize)
        => (last.outcome = "returned" /\ ~last.ub /\ last.ret = 0
            /\ last.buff = <<>>)

\* what one Read of [0, totalsize) returns on a fresh session over src
WholeFile ==
    LET fresh == FileTranscoder_Con(src)
    IN  FileTranscoder_Read(fresh, 0, fresh.totalsize, AllSucceed).buff

\* C3: every byte a Read returns at absolute position p is the byte that
\* one Read of the whole file on a fresh session returns at p.
C3_ChunksMatchWholeRead ==
    IsRead => \A i \in 1..last.ret :
                  /\ last.offset + i <= Len(WholeFile)
                  /\ last.buff[i] = WholeFile[last.offset + i]

\* C4: no call leaves buffer.pos smaller than it was before the call.
C4_ProducedNeverDecreases ==
    [][self'.buffer.pos >= self.buffer.pos]_vars

\* what the caller of Read(offset, length) gets in session state s
Answer(s, offset, length) ==
    LET r == FileTranscoder_Read(s, offset, length, AllSucceed)
    IN  <<r.ret, r.buff>>

\* C5: a range that lies within [0, buffer.pos) reads the same after any
\* further call on the session as it read before it.
C5_CachedRangeStable ==
    [][\A req \in Requests :
          (req[2] > 0 /\ req[1] + req[2] <= self.buffer.pos)
              => Answer(self', req[1], req[2]) = Answer(self, req[1], req[2])
      ]_vars

\* the length of a request after the clamp to the end of the file
ClampedLen(offset, length) ==
    IF offset + length > self.totalsize
    THEN self.totalsize - offset
    ELSE length

\* C6: a Read whose clamped range lies within [0, buffer.pos) calls neither
\* the decoder nor the encoder nor Finish, leaves the session as it was and
\* returns the whole clamped range.
C6_CacheHitIsPure ==
    [][(/\ last'.op = "Read"
        /\ ClampedLen(last'.offset, last'.len) >= 0
        /\ last'.offset + ClampedLen(last'.offset, last'.len)
               <= self.buffer.pos)
          => (/\ self' = self
              /\ last'.decode_calls = 0
              /\ last'.encode_calls = 0
              /\ last'.flush_calls = 0
              /\ last'.finish_calls = 0
              /\ last'.ret = ClampedLen(last'.offset, last'.len))
      ]_vars

C6_Witness ==
    /\ IsRead
    /\ last.len > 0
    /\ last.offset + last.len <= last.pos0
    /\ last.offset + last.len <= self.totalsize
    /\ last.ret = last.len
    /\ self.decoder /\ self.encoder
    /\ self.frames_decoded > 0

\* C7: once decoder and encoder are released, buffer.pos = totalsize.
C7_FinishedAtTotalSize ==
    Finished => self.buffer.pos = self.totalsize

\* C8: totalsize keeps the value the constructor computed.
C8_TotalSizeFixed ==
    self.totalsize = FileTranscoder_Con(src).totalsize

C8_Witness ==
    /\ Finished
    /\ last.op = "Read"
    /\ last.finish_calls = 1
    /\ src.id3v2 + self.encoded + ID3V1_SIZE /= self.totalsize

\* C9: a Read never returns more than the requested length, and a Read
\* that starts inside the file and reaches past its end returns between 0
\* and totalsize - offset bytes.
C9_ReturnIsClamped ==
    IsRead =>
        /\ last.ret <= last.len
        /\ (last.offset < self.totalsize
            /\ last.offset + last.len > self.totalsize)
              => (/\ last.ret >= 0
                  /\ last.ret <= self.totalsize - last.offset
                  /\ Len(last.buff) = last.ret)

C9_Witness ==
    /\ IsRead
    /\ last.offset < self.totalsize
    /\ last.offset + last.len > self.totalsize
    /\ last.ret = self.totalsize - last.offset
    /\ last.ret > 0

\* C10: a Read during which buffer_write_prepare returned NULL inside
\* write_cb reports an error (a negative value) to its caller.
C10_AllocFailureIsHardError ==
    (last.op = "Read" /\ last.write_cb_nomem) => last.ret < 0

\* C15: a block handed back by the id3v1 shortcut holds zero at every
\* position below totalsize - ID3V1_SIZE and, at every position p from
\* there on, byte p - (totalsize - ID3V1_SIZE) of the cached tag.
C15_ShortcutBlockContent ==
    (IsRead /\ last.shortcut) =>
        \A i \in 1..last.ret :
            LET p == last.offset + i - 1
            IN  IF p < TailStart
                THEN last.buff[i] = ZeroByte
                ELSE last.buff[i] = self.id3v1tag[p - TailStart + 1]

\* the bytes a producer writes: the id3v2 render, the encoder, the id3v1 tag
ProducedKinds == {"id3v2", "mp3", "id3v1"}

\* C16: every byte Read copies out of the output buffer was written there
\* by the id3v2 render, by the encoder or by the append of the id3v1 tag.
C16_ReadReturnsWrittenBytes ==
    (IsRead /\ ~last.shortcut) =>
        \A i \in 1..last.ret : last.buff[i][1] \in ProducedKinds

\* C17: after Finish, the buffer holds the cached id3v1 tag at
\* [totalsize - ID3V1_SIZE, totalsize).
C17_TrailerInPlace ==
    Finished =>
        /\ self.buffer.size >= self.totalsize
        /\ \A i \in 1..ID3V1_SIZE :
              self.buffer.data[TailStart + i] = self.id3v1tag[i]

\* C18: the encoder is flushed and the tag appended only by a call that
\* finds the encoder open and closes it, at most once in that call; a
\* session that is Finished stays so, and no call on it reaches the
\* decoder or the encoder.
C18_FinalizeOnce ==
    [][/\ (last'.flush_calls + last'.tag_writes > 0)
            => (/\ self.encoder /\ ~self'.encoder
                /\ last'.flush_calls <= 1 /\ last'.tag_writes <= 1)
       /\ Finished
            => (/\ ~self'.decoder /\ ~self'.encoder
                /\ last'.decode_calls = 0 /\ last'.encode_calls = 0
                /\ last'.flush_calls = 0 /\ last'.tag_writes = 0)
      ]_vars

C18_Witness ==
    /\ Finished
    /\ IsRead
    /\ last.finish_calls = 0
    /\ last.ret > 0
    /\ last.pos0 = self.totalsize
    /\ self.frames_decoded > 0

\* C19: a Read answered by the id3v1 shortcut (offset past buffer.pos, the
\* clamped range reaching into the last ID3V1_SIZE bytes) calls neither the
\* decoder nor the encoder nor Finish and leaves the session as it was.
C19_ShortcutIsPure ==
    [][(/\ last'.op = "Read"
        /\ ClampedLen(last'.offset, last'.len) >= 0
        /\ last'.offset > self.buffer.pos
        /\ last'.offset + ClampedLen(last'.offset, last'.len) > TailStart)
          => (/\ self' = self
              /\ last'.shortcut
              /\ last'.decode_calls = 0
              /\ last'.encode_calls = 0
              /\ last'.flush_calls = 0
              /\ last'.finish_calls = 0)
      ]_vars

C19_Witness ==
    /\ IsRead
    /\ last.shortcut
    /\ last.ret > 0
    /\ last.offset < TailStart
    /\ last.offset + last.ret > TailStart
    /\ self.decoder /\ self.encoder

Abs(n) == IF n < 0 THEN -n ELSE n

\* C14: divideround(one, another) is an integer nearest to one / another:
\* it lies no more than half of another away from one when multiplied back.
C14_DivideroundIsNearest ==
    division.done =>
        2 * Abs(division.result * division.another - division.one)
            <= division.another

\* C11: when FileTranscoder_Con fails it returns no object and every
\* handle it had acquired has been released exactly once (and none that
\* it had not acquired).
C11_FailureReleasesAll ==
    (construction.done /\ ~construction.ok) =>
        /\ self = NewObject
        /\ \A h \in Handles :
              construction.handles[h].released
                  = construction.handles[h].acquired

GainOf(str) == IF str # Absent /\ atof(str) # 0
               THEN lame_set_scale(atof(str))
               ELSE NoScale

\* C13 as stated: the scale comes from the album gain when that comment is
\* present and not zero; otherwise from the track gain when that comment
\* is present and not zero; otherwise no scale is set.
C13_AlbumThenTrack ==
    construction.metadata =>
        construction.scale =
            IF GainOf(src.comments.album) # NoScale
            THEN GainOf(src.comments.album)
            ELSE GainOf(src.comments.track)

\* C13, amended: when the album gain comment is present it alone decides
\* (its value when not zero, no scale when it parses to zero, the track
\* gain never consulted); when it is absent the track gain decides the
\* same way; with neither comment no scale is set.
C13_AlbumCommentDecides ==
    construction.metadata =>
        /\ src.comments.album # Absent
              => construction.scale = GainOf(src.comments.album)
        /\ src.comments.album = Absent
              => construction.scale = GainOf(src.comments.track)

C13_Witness ==
    /\ construction.done
    /\ construction.ok
    /\ src.comments.album # Absent
    /\ atof(src.comments.album) = 0
    /\ atof(src.comments.track) # 0
    /\ construction.scale = NoScale

\* the threads inside the loop of Read or inside Finish
Filling == {t \in Threads : reads[t].pc \in {"loop", "finish"}}

\* C12: at no time are two threads inside the forward-fill loop of Read,
\* nor one inside the loop while another is inside Finish.
C12_OneFillAtATime == Cardinality(Filling) <= 1

C12_Witness ==
    \E t, u \in Threads :
        /\ reads[t].pc = "loop"
        /\ reads[t].iterations > 0
        /\ self.decoder /\ self.encoder
        /\ reads[u].pc = "lock"

\* what is left for the loop to do: the frames not yet decoded, the pass
\* that finds the end of the stream (or an abort), the pass that finishes
Remaining(s) ==
    (Len(src.frames) - s.frames_decoded)
        + (IF BeforeEndOfStream(s.decoder_state) THEN 1 ELSE 0)
        + (IF s.decoder /\ s.encoder THEN 1 ELSE 0)

\* C20: the loop of a Read makes no more passes than there are frames left
\* plus two, whatever a pass appends and whatever state the decoder takes,
\* and a Read leaves the loop only with buffer.pos >= offset + len or with
\* the session Finished.
C20_ReadTerminates ==
    [][\A t \in Threads :
          /\ reads'[t].pc = "loop"
                => reads'[t].iterations + Remaining(self')
                       <= Len(src.frames) + 2
          /\ (reads[t].pc = "loop" /\ reads'[t].pc = "idle")
                => \/ self'.buffer.pos >= reads[t].offset + reads[t].len
                   \/ (~self'.decoder /\ ~self'.encoder)
      ]_vars

C20_Witness ==
    \E t \in Threads :
        /\ reads[t].pc = "loop"
        /\ reads[t].iterations > Len(src.frames)
        /\ Len(src.frames) = MaxFrames
        /\ src.frames[1] = 0
        /\ self.decoder_state = ABORTED
        /\ Finished

\* C21: between the calls on a session, so at the start and at the end of
\* every Read, buffer.pos does not exceed the allocated size buffer.size,
\* and a Read copies out no byte that lies past the allocation.
C21_ProducedWithinCapacity ==
    /\ self.buffer.pos <= self.buffer.size
    /\ (IsRead /\ ~last.shortcut) =>
          \A i \in 1..last.ret : last.buff[i][1] # "oob"

====
